---- MODULE Spec2Model ----
(***************************************************************************)
(* Model of the BGG adapter: the Express application with POST /functions  *)
(* (src/unnamed/part_000) and the Express + MCP stdio server               *)
(* (src/index.js).  One request is followed from its arrival to its        *)
(* response; the handlers keep no state between requests except the rate   *)
(* limiter's hit counter, so requests are taken one at a time.             *)
(*                                                                         *)
(* Strings that end up in an upstream URL are sequences of one-character   *)
(* strings, so that encoding and query parsing are computed, not assumed.  *)
(***************************************************************************)
EXTENDS Naturals, Sequences, FiniteSets, TLC

VARIABLES app, req, pc, idx, err, hits, arrivals, upstream, pending, reply, responses

vars == <<app, req, pc, idx, err, hits, arrivals, upstream, pending, reply, responses>>

\* ---------------------------------------------------------------- bounds
\* Longest caller-supplied string over Alphabet.
MaxLen == 2
\* Requests received in one limiter window.
MaxArrivals == 2

\* ------------------------------------------------------------ JS values
Undef == [t |-> "undefined"]
Null == [t |-> "null"]
Str(s) == [t |-> "string", s |-> s]
Bool(b) == [t |-> "boolean", b |-> b]
Num(n) == [t |-> "number", n |-> n]

\* JavaScript truthiness, as used by !x, x || y, x ? a : b.
Truthy(v) ==
  CASE v.t = "undefined" -> FALSE
    [] v.t = "null" -> FALSE
    [] v.t = "boolean" -> v.b
    [] v.t = "number" -> v.n # 0
    [] v.t = "string" -> v.s # <<>>
    [] OTHER -> TRUE

\* x ?? y
Nullish(v, d) == IF v.t \in {"undefined", "null"} THEN d ELSE v

\* a default parameter value (f(x = d)): applied for undefined only.
DefaultParam(v, d) == IF v.t = "undefined" THEN d ELSE v

\* String conversion done by a template literal `${v}`.
TemplateString(v) ==
  CASE v.t = "undefined" -> <<"u","n","d","e","f","i","n","e","d">>
    [] v.t = "null" -> <<"n","u","l","l">>
    [] v.t = "boolean" -> IF v.b THEN <<"t","r","u","e">> ELSE <<"f","a","l","s","e">>
    [] v.t = "string" -> v.s
    [] OTHER -> <<"[","o","b","j","e","c","t","]">>

\* encodeURIComponent of one character: everything but the unreserved set
\* is percent-encoded.
EncodeChar(c) ==
  CASE c = "&" -> <<"%","2","6">>
    [] c = "=" -> <<"%","3","D">>
    [] c = "%" -> <<"%","2","5">>
    [] c = "?" -> <<"%","3","F">>
    [] c = " " -> <<"%","2","0">>
    [] OTHER -> <<c>>

RECURSIVE EncodeSeq(_)
EncodeSeq(s) == IF s = <<>> THEN <<>> ELSE EncodeChar(Head(s)) \o EncodeSeq(Tail(s))

encodeURIComponent(v) == EncodeSeq(TemplateString(v))

\* ------------------------------------------------------- input alphabet
Alphabet == {"a", "&", "="}

RECURSIVE SeqsUpTo(_)
SeqsUpTo(n) ==
  IF n = 0 THEN {<<>>}
  ELSE LET S == SeqsUpTo(n - 1)
       IN  S \cup {Append(s, c) : s \in {x \in S : Len(x) = n - 1}, c \in Alphabet}

Boardgame == <<"b","o","a","r","d","g","a","m","e">>

UserStrings == SeqsUpTo(MaxLen) \cup {Boardgame}

OptStr == {Undef} \cup {Str(s) : s \in UserStrings}
OptBool == {Undef, Null, Bool(TRUE), Bool(FALSE)}

\* --------------------------------------------------------- tool lists
\* toolsList of the /functions application: name, properties, required.
toolsList_functions ==
  << [name |-> "search_game", properties |-> {"query", "exact"}, required |-> {"query"}],
     [name |-> "get_thing", properties |-> {"id", "stats"}, required |-> {"id"}],
     [name |-> "get_hot_items", properties |-> {"type"}, required |-> {}],
     [name |-> "get_user_collection", properties |-> {"username"}, required |-> {"username"}] >>

\* toolsList of the MCP application.
toolsList_mcp ==
  << [name |-> "search_game", properties |-> {"query", "type", "exact"}, required |-> {"query"}],
     [name |-> "get_thing", properties |-> {"id", "type", "stats"}, required |-> {"id"}],
     [name |-> "get_hot_items", properties |-> {"type"}, required |-> {}],
     [name |-> "get_user_collection", properties |-> {"username"}, required |-> {"username"}] >>

toolsList(a) == IF a = "part_000" THEN toolsList_functions ELSE toolsList_mcp

\* --------------------------------------------------------------- errors
\* An Error object: statusCode 0 and code "" stand for an absent property
\* (both are falsy in `err.statusCode || 500` and `err.code || '...'`).
JsError(name, message) ==
  [name |-> name, message |-> message, statusCode |-> 0, status |-> 0, code |-> ""]

\* JSON.parse failing.
JsonSyntaxError == JsError("SyntaxError", "Unexpected token in JSON")

\* Reading a property of undefined or null.
PropertyTypeError == JsError("TypeError", "Cannot read properties of undefined")

\* express.json() rejecting a malformed body: a 400 error passed to next().
BodyParseError ==
  [name |-> "SyntaxError", message |-> "Unexpected token in JSON",
   statusCode |-> 400, status |-> 400, code |-> ""]

\* How the upstream GET can fail, and the AxiosError each produces.
Failures == {"timeout", "network", "status404", "status503"}

AxiosError(f) ==
  CASE f = "timeout" ->
         [name |-> "AxiosError", message |-> "timeout of 30000ms exceeded",
          statusCode |-> 0, status |-> 0, code |-> "ECONNABORTED"]
    [] f = "network" ->
         [name |-> "AxiosError", message |-> "Network Error",
          statusCode |-> 0, status |-> 0, code |-> "ERR_NETWORK"]
    [] f = "status404" ->
         [name |-> "AxiosError", message |-> "Request failed with status code 404",
          statusCode |-> 0, status |-> 404, code |-> "ERR_BAD_REQUEST"]
    [] OTHER ->
         [name |-> "AxiosError", message |-> "Request failed with status code 503",
          statusCode |-> 0, status |-> 503, code |-> "ERR_BAD_RESPONSE"]

\* new McpError(code, message)
McpError(code, message) == [name |-> "McpError", code |-> code, message |-> message]

\* Upstream payloads.
Bodies == {"<items/>", "<error/>"}

\* ------------------------------------------------------------ responses
\* res.json({ result })
ResultEnvelope(data) == [status |-> 200, body |-> [k |-> "result", result |-> data]]

\* The default branch of the switch on function_call.name.
UnknownFunctionResponse ==
  [status |-> 400,
   body |-> [k |-> "error", message |-> "Unknown function name",
             type |-> "INVALID_FUNCTION", code |-> "UNKNOWN_FUNCTION"]]

\* errorHandler taking the status of the upstream response instead:
\* err.status || 500.
ErrorStatus_FromUpstream(e) == IF e.status # 0 THEN e.status ELSE 500

\* err.statusCode || 500
ErrorStatus(e) == IF e.statusCode # 0 THEN e.statusCode ELSE 500

\* errorHandler's response.
ErrorResponse(e) ==
  [status |-> ErrorStatus(e),
   body |-> [k |-> "error", message |-> e.message, type |-> e.name,
             code |-> IF e.code # "" THEN e.code ELSE "INTERNAL_ERROR"]]

\* GET /manifest.json
ManifestResponse(a) == [status |-> 200, body |-> [k |-> "manifest", functions |-> toolsList(a)]]

\* GET /health
HealthResponse == [status |-> 200, body |-> [k |-> "health", st |-> "ok"]]

\* GET /metrics
MetricsResponse == [status |-> 200, body |-> [k |-> "metrics"]]

\* Express's final handler when no layer answered.
NotFoundResponse == [status |-> 404, body |-> [k |-> "notfound"]]

\* express-rate-limit's rejection.
TooManyResponse == [status |-> 429, body |-> [k |-> "ratelimited"]]

\* ------------------------------------------------------------ arguments
\* The object a JSON arguments text denotes: the six properties the
\* handlers read, undefined when absent.
EmptyObject ==
  [t |-> "object", query |-> Undef, id |-> Undef, type |-> Undef,
   username |-> Undef, exact |-> Undef, stats |-> Undef]

\* The `arguments` value of a request: absent, a value that is not a string,
\* or a text ("" is empty, "{bad" is not JSON, "json" denotes the value v).
NonString == [t |-> "nonstring"]
Text(src, v) == [t |-> "text", src |-> src, v |-> v]

\* argsString || '{}'
OrEmptyJson(a) == IF a.t = "undefined" \/ (a.t = "text" /\ a.src = "") THEN Text("json", EmptyObject) ELSE a

\* JSON.parse(a): a non-string is converted to a string first ("undefined",
\* "[object Object]"), which is not JSON.
JSONparse(a) ==
  IF a.t = "text" /\ a.src = "json" THEN [threw |-> FALSE, v |-> a.v]
  ELSE [threw |-> TRUE, v |-> Undef]

\* ------------------------------------------------- upstream URL building
BASE_URL == "https://boardgamegeek.com/xmlapi2"

Url(endpoint, query) == [base |-> BASE_URL, endpoint |-> endpoint, query |-> query]

\* c ? 1 : 0
OneZero(c) == IF Truthy(c) THEN <<"1">> ELSE <<"0">>

\* searchGame(bggApi, query, exact = false) of the /functions application.
searchGame(query, exact) ==
  Url("/search",
      <<"q","u","e","r","y","=">> \o encodeURIComponent(query)
        \o <<"&","e","x","a","c","t","=">> \o OneZero(DefaultParam(exact, Bool(FALSE))))

\* getThing(bggApi, id, stats = true)
getThing(id, stats) ==
  Url("/thing",
      <<"i","d","=">> \o TemplateString(id)
        \o <<"&","s","t","a","t","s","=">> \o OneZero(DefaultParam(stats, Bool(TRUE))))

\* getHotItems(bggApi, type = 'boardgame')
getHotItems(type) ==
  Url("/hot", <<"t","y","p","e","=">> \o TemplateString(DefaultParam(type, Str(Boardgame))))

\* getUserCollection(bggApi, username)
getUserCollection(username) ==
  Url("/collection",
      <<"u","s","e","r","n","a","m","e","=">> \o TemplateString(username)
        \o <<"&","s","t","a","t","s","=","1">>)

\* [..].filter(Boolean).join('&')
RECURSIVE JoinAmp(_)
JoinAmp(parts) ==
  IF parts = <<>> THEN <<>>
  ELSE IF Head(parts) = <<>> THEN JoinAmp(Tail(parts))
  ELSE LET rest == JoinAmp(Tail(parts))
       IN  IF rest = <<>> THEN Head(parts) ELSE Head(parts) \o <<"&">> \o rest

\* BGGServer.searchGame(query, type = 'boardgame', exact = false)
BGGServer_searchGame(query, type, exact) ==
  LET ty == DefaultParam(type, Str(Boardgame))
      ex == DefaultParam(exact, Bool(FALSE))
  IN  Url("/search",
          JoinAmp(<< <<"s","e","a","r","c","h","=">> \o encodeURIComponent(query),
                     IF Truthy(ty) THEN <<"t","y","p","e","=">> \o encodeURIComponent(ty) ELSE <<>>,
                     IF Truthy(ex) THEN <<"e","x","a","c","t","=","1">> ELSE <<>> >>))

\* BGGServer.getThing(id, type = '', stats = true)
BGGServer_getThing(id, type, stats) ==
  LET ty == DefaultParam(type, Str(<<>>))
      st == DefaultParam(stats, Bool(TRUE))
  IN  Url("/thing",
          JoinAmp(<< <<"i","d","=">> \o encodeURIComponent(id),
                     IF Truthy(ty) THEN <<"t","y","p","e","=">> \o encodeURIComponent(ty) ELSE <<>>,
                     IF Truthy(st) THEN <<"s","t","a","t","s","=","1">> ELSE <<>> >>))

\* ------------------------------------------------------------- handlers
\* What a handler does up to its first await: it throws, it answers, or it
\* issues one upstream GET.
Throw(e) == [k |-> "throw", e |-> e]
Respond(r) == [k |-> "respond", r |-> r]
Call(url) == [k |-> "call", url |-> url]

\* The switch on function_call.name of POST /functions; args is the parsed
\* arguments value (reading a property of null throws).
FunctionsSwitch(name, args) ==
  IF name \in {"search_game", "get_thing", "get_hot_items", "get_user_collection"}
     /\ args.t # "object"
  THEN Throw(PropertyTypeError)
  ELSE CASE name = "search_game" -> Call(searchGame(args.query, args.exact))
         [] name = "get_thing" -> Call(getThing(args.id, args.stats))
         [] name = "get_hot_items" -> Call(getHotItems(args.type))
         [] name = "get_user_collection" -> Call(getUserCollection(args.username))
         [] OTHER -> Respond(UnknownFunctionResponse)

\* The body of the POST /functions handler up to the upstream call.
FunctionsHandler(r) ==
  LET parsed == JSONparse(OrEmptyJson(r.arguments))
  IN  IF parsed.threw THEN Throw(JsonSyntaxError)
      ELSE IF r.function_call.t = "undefined" THEN Throw(PropertyTypeError)
      ELSE FunctionsSwitch(r.function_call.name, parsed.v)

\* The catch of the CallTool handler without its instanceof test: every
\* exception is wrapped.
CallToolCatch_WrapAll(e) == McpError("InternalError", "Operation failed: " \o e.message)

\* The catch of the CallTool handler: an McpError passes, anything else is
\* wrapped as InternalError.
CallToolCatch(e) ==
  IF e.name = "McpError" THEN e
  ELSE McpError("InternalError", "Operation failed: " \o e.message)

\* One case of the CallTool switch after JSON.parse(args).
SearchGameCase(parsed) ==
  IF parsed.threw THEN Throw(JsonSyntaxError)
  ELSE IF parsed.v.t # "object" THEN Throw(PropertyTypeError)
  ELSE IF ~Truthy(parsed.v.query)
       THEN Throw(McpError("InvalidParams", "Query parameter is required"))
  ELSE Call(BGGServer_searchGame(parsed.v.query,
                                 IF Truthy(parsed.v.type) THEN parsed.v.type ELSE Str(Boardgame),
                                 Nullish(parsed.v.exact, Bool(FALSE))))

GetThingCase(parsed) ==
  IF parsed.threw THEN Throw(JsonSyntaxError)
  ELSE IF parsed.v.t # "object" THEN Throw(PropertyTypeError)
  ELSE IF ~Truthy(parsed.v.id)
       THEN Throw(McpError("InvalidParams", "ID parameter is required"))
  ELSE Call(BGGServer_getThing(parsed.v.id,
                               IF Truthy(parsed.v.type) THEN parsed.v.type ELSE Str(<<>>),
                               Nullish(parsed.v.stats, Bool(TRUE))))

\* The switch on the tool name of the CallTool handler.
CallToolSwitch(name, args) ==
  CASE name = "search_game" -> SearchGameCase(JSONparse(args))
    [] name = "get_thing" -> GetThingCase(JSONparse(args))
    [] OTHER -> Throw(McpError("MethodNotFound", "Unknown tool: " \o name))

\* The CallTool handler up to the upstream call, its catch applied.
CallToolHandler(r) ==
  LET eff == CallToolSwitch(r.name, r.arguments)
  IN  IF eff.k = "throw" THEN Throw(CallToolCatch(eff.e)) ELSE eff

\* The catch of BGGServer.searchGame / BGGServer.getThing.
UpstreamCatch(name, e) ==
  IF name = "search_game" THEN McpError("InternalError", "Search failed: " \o e.message)
  ELSE McpError("InternalError", "Get thing failed: " \o e.message)

\* The tool result returned on success.
ToolResult(data) == [k |-> "return", content |-> <<[type |-> "text", text |-> data]>>]

\* The McpError the handler ends with.
ToolError(e) == [k |-> "throw", error |-> e]

\* ListTools
ListToolsResult == [k |-> "return", tools |-> toolsList_mcp]

\* ------------------------------------------------------------- requests
Apps == {"part_000", "index"}

\* Names a caller may send: the four declared ones and an undeclared one.
CallNames == {"search_game", "get_thing", "get_hot_items", "get_user_collection", "delete_game"}

\* Argument objects sent to POST /functions, varying what the function reads.
FunctionsObjects(name) ==
  CASE name = "search_game" ->
         {[EmptyObject EXCEPT !.query = q, !.exact = e] : q \in OptStr, e \in OptBool}
    [] name = "get_thing" ->
         {[EmptyObject EXCEPT !.id = i, !.stats = st] : i \in OptStr, st \in OptBool}
    [] name = "get_hot_items" -> {[EmptyObject EXCEPT !.type = ty] : ty \in OptStr}
    [] name = "get_user_collection" -> {[EmptyObject EXCEPT !.username = u] : u \in OptStr}
    [] OTHER -> {EmptyObject}

\* Argument objects sent to the MCP tool call.
ToolObjects(name) ==
  CASE name = "search_game" ->
         {[EmptyObject EXCEPT !.query = q, !.type = ty, !.exact = e] :
            q \in OptStr, ty \in OptStr, e \in OptBool}
    [] name = "get_thing" ->
         {[EmptyObject EXCEPT !.id = i, !.type = ty, !.stats = st] :
            i \in OptStr, ty \in OptStr, st \in OptBool}
    [] name = "get_hot_items" -> {[EmptyObject EXCEPT !.type = ty] : ty \in OptStr}
    [] name = "get_user_collection" -> {[EmptyObject EXCEPT !.username = u] : u \in OptStr}
    [] OTHER -> {EmptyObject}

\* Every shape of the `arguments` value around a set of objects.
ArgumentValues(objects) ==
  {Undef, NonString, Text("", Undef), Text("{bad", Undef), Text("json", Null)}
    \cup {Text("json", o) : o \in objects}

HttpRequest(method, path, bodyOk, call, arguments) ==
  [transport |-> "http", method |-> method, path |-> path, bodyOk |-> bodyOk,
   function_call |-> call, arguments |-> arguments]

PlainRequests ==
  {HttpRequest("GET", p, TRUE, Undef, Undef) :
     p \in {"/manifest.json", "/health", "/metrics", "/functions"}}

\* POST /functions bodies: malformed JSON, no function_call, or a call.
PostRequests ==
  {HttpRequest("POST", "/functions", FALSE, Undef, Undef)}
    \cup {HttpRequest("POST", "/functions", TRUE, Undef, a) : a \in ArgumentValues({EmptyObject})}
    \cup UNION {{HttpRequest("POST", "/functions", TRUE, [t |-> "object", name |-> n], a) :
                   a \in ArgumentValues(FunctionsObjects(n))} : n \in CallNames}

McpRequests ==
  {[transport |-> "mcp", method |-> "tools/list", name |-> "", arguments |-> Undef]}
    \cup UNION {{[transport |-> "mcp", method |-> "tools/call", name |-> n, arguments |-> a] :
                   a \in ArgumentValues(ToolObjects(n))} : n \in CallNames}

Requests(a) ==
  IF a = "part_000" THEN PlainRequests \cup PostRequests
  ELSE PlainRequests \cup {HttpRequest("POST", "/functions", TRUE, Undef, Undef)} \cup McpRequests

\* ------------------------------------------------------ middleware stack
\* The layers in the order the application registers them.
Stack(a) ==
  IF a = "part_000"
  THEN <<"cors", "express.json", "requestLogger", "GET /manifest.json", "POST /functions",
         "GET /health", "errorHandler", "limiter", "GET /metrics">>
  ELSE <<"cors", "express.json", "requestLogger", "GET /manifest.json",
         "GET /health", "errorHandler", "limiter", "GET /metrics">>

NoErr == [name |-> "none"]
NoReq == [transport |-> "none"]
NoPending == [t |-> "none"]
NoReply == [t |-> "none", ok |-> FALSE]

\* Express's dispatch: an error handler runs only with an error, every other
\* layer only without one; a route needs its method and path, a mounted
\* middleware its path.
Matches(layer, r, e) ==
  CASE layer = "errorHandler" -> e # NoErr
    [] layer \in {"cors", "express.json", "requestLogger"} -> e = NoErr
    [] layer = "limiter" -> e = NoErr /\ r.path = "/functions"
    [] layer = "GET /manifest.json" -> e = NoErr /\ r.method = "GET" /\ r.path = "/manifest.json"
    [] layer = "GET /health" -> e = NoErr /\ r.method = "GET" /\ r.path = "/health"
    [] layer = "GET /metrics" -> e = NoErr /\ r.method = "GET" /\ r.path = "/metrics"
    [] layer = "POST /functions" -> e = NoErr /\ r.method = "POST" /\ r.path = "/functions"
    [] OTHER -> FALSE

At(layer) ==
  /\ pc = "stack"
  /\ idx <= Len(Stack(app))
  /\ Stack(app)[idx] = layer
  /\ Matches(layer, req, err)

\* rateLimit({ windowMs, max })
LimiterMax == 100

\* A request config that asks for one retry.
RequestConfig_Retrying == [retry |-> Num(1), retryDelay |-> Undef]

\* The request config of bggApi.get(url): neither axios.create nor the call
\* sets retry or retryDelay.
RequestConfig == [retry |-> Undef, retryDelay |-> Undef]

\* The response interceptor re-issues the request unless !config.retry.
InterceptorRetries(config) == Truthy(config.retry)

\* config.retry -= 1
DecrementRetry(config) ==
  [config EXCEPT !.retry = IF config.retry.t = "number" /\ config.retry.n > 0
                           THEN Num(config.retry.n - 1) ELSE Undef]

\* Failures the client of each transport can see: only the per-request
\* client of POST /functions sets a timeout.
FailuresOf(r) == IF r.transport = "http" THEN Failures ELSE Failures \ {"timeout"}

\* ---------------------------------------------------------------- state
Init ==
  /\ app \in Apps
  /\ req = NoReq
  /\ pc = "idle"
  /\ idx = 0
  /\ err = NoErr
  /\ hits = 0
  /\ arrivals = 0
  /\ upstream = <<>>
  /\ pending = NoPending
  /\ reply = NoReply
  /\ responses = <<>>

Accept(r) ==
  /\ req' = r
  /\ pc' = IF r.transport = "http" THEN "stack" ELSE "mcp"
  /\ idx' = 1
  /\ err' = NoErr
  /\ arrivals' = arrivals + 1
  /\ upstream' = <<>>
  /\ pending' = NoPending
  /\ reply' = NoReply
  /\ responses' = <<>>
  /\ UNCHANGED <<app, hits>>

\* A request arrives.
Receive ==
  /\ pc = "idle"
  /\ arrivals < MaxArrivals
  /\ \E r \in Requests(app) : Accept(r)

PassOn == idx' = idx + 1 /\ UNCHANGED <<app, req, pc, hits, arrivals, upstream, pending, reply, responses>>

Answer(r) ==
  /\ responses' = Append(responses, r)
  /\ pc' = "done"
  /\ UNCHANGED <<app, req, idx, err, hits, arrivals, upstream, pending, reply>>

\* A layer that does not match the request is passed over.
SkipLayer ==
  /\ pc = "stack"
  /\ idx <= Len(Stack(app))
  /\ ~Matches(Stack(app)[idx], req, err)
  /\ PassOn /\ UNCHANGED err

Cors == At("cors") /\ PassOn /\ UNCHANGED err

JsonBodyParser ==
  /\ At("express.json")
  /\ err' = IF req.bodyOk THEN NoErr ELSE BodyParseError
  /\ PassOn

RequestLogger == At("requestLogger") /\ PassOn /\ UNCHANGED err

ManifestRoute == At("GET /manifest.json") /\ Answer(ManifestResponse(app))

HealthRoute == At("GET /health") /\ Answer(HealthResponse)

MetricsRoute == At("GET /metrics") /\ Answer(MetricsResponse)

\* POST /functions up to its await (or its answer, or next(err)).
FunctionsRoute ==
  /\ At("POST /functions")
  /\ LET eff == FunctionsHandler(req)
     IN  CASE eff.k = "throw" ->
                /\ err' = eff.e
                /\ PassOn
           [] eff.k = "respond" ->
                /\ Answer(eff.r)
           [] OTHER ->
                /\ upstream' = Append(upstream, eff.url)
                /\ pending' = [url |-> eff.url, config |-> RequestConfig]
                /\ pc' = "await"
                /\ UNCHANGED <<app, req, idx, err, hits, arrivals, reply, responses>>

\* The upstream API answers 2xx.
AxiosResolve ==
  /\ pc = "await"
  /\ \E d \in Bodies : reply' = [ok |-> TRUE, data |-> d]
  /\ pc' = "resume"
  /\ UNCHANGED <<app, req, idx, err, hits, arrivals, upstream, pending, responses>>

\* The upstream GET fails; the per-request client's interceptor decides
\* between rejecting and re-issuing.
AxiosReject ==
  /\ pc = "await"
  /\ \E f \in FailuresOf(req) :
       IF req.transport = "http" /\ InterceptorRetries(pending.config)
       THEN /\ pending' = [pending EXCEPT !.config = DecrementRetry(pending.config)]
            /\ upstream' = Append(upstream, pending.url)
            /\ UNCHANGED <<pc, reply>>
       ELSE /\ reply' = [ok |-> FALSE, error |-> AxiosError(f)]
            /\ pc' = "resume"
            /\ UNCHANGED <<pending, upstream>>
  /\ UNCHANGED <<app, req, idx, err, hits, arrivals, responses>>

\* POST /functions after its await: res.json({ result }) or next(err).
FunctionsResume ==
  /\ pc = "resume"
  /\ req.transport = "http"
  /\ IF reply.ok
     THEN Answer(ResultEnvelope(reply.data))
     ELSE /\ err' = reply.error
          /\ pc' = "stack"
          /\ idx' = idx + 1
          /\ UNCHANGED <<app, req, hits, arrivals, upstream, pending, reply, responses>>

ErrorHandler == At("errorHandler") /\ Answer(ErrorResponse(err))

\* express-rate-limit: count the request, reject it over max.
Limiter ==
  /\ At("limiter")
  /\ hits' = hits + 1
  /\ IF hits + 1 > LimiterMax
     THEN /\ responses' = Append(responses, TooManyResponse)
          /\ pc' = "done"
          /\ UNCHANGED idx
     ELSE /\ idx' = idx + 1
          /\ UNCHANGED <<pc, responses>>
  /\ UNCHANGED <<app, req, err, arrivals, upstream, pending, reply>>

\* No layer answered.
FinalHandler ==
  /\ pc = "stack"
  /\ idx > Len(Stack(app))
  /\ Answer(IF err = NoErr THEN NotFoundResponse ELSE ErrorResponse(err))

\* ListTools
ListTools ==
  /\ pc = "mcp"
  /\ req.method = "tools/list"
  /\ Answer(ListToolsResult)

\* CallTool up to its await (or its throw).
CallTool ==
  /\ pc = "mcp"
  /\ req.method = "tools/call"
  /\ LET eff == CallToolHandler(req)
     IN  IF eff.k = "throw"
         THEN Answer(ToolError(eff.e))
         ELSE /\ upstream' = Append(upstream, eff.url)
              /\ pending' = [url |-> eff.url, config |-> RequestConfig]
              /\ pc' = "await"
              /\ UNCHANGED <<app, req, idx, err, hits, arrivals, reply, responses>>

\* CallTool after its await.
CallToolResume ==
  /\ pc = "resume"
  /\ req.transport = "mcp"
  /\ Answer(IF reply.ok THEN ToolResult(reply.data)
            ELSE ToolError(CallToolCatch(UpstreamCatch(req.name, reply.error))))

\* The response is on the wire; the next request is taken.
Finish ==
  /\ pc = "done"
  /\ req' = NoReq
  /\ pc' = "idle"
  /\ idx' = 0
  /\ err' = NoErr
  /\ upstream' = <<>>
  /\ pending' = NoPending
  /\ reply' = NoReply
  /\ responses' = <<>>
  /\ UNCHANGED <<app, hits, arrivals>>

Next ==
  \/ Receive
  \/ SkipLayer
  \/ Cors
  \/ JsonBodyParser
  \/ RequestLogger
  \/ ManifestRoute
  \/ HealthRoute
  \/ MetricsRoute
  \/ FunctionsRoute
  \/ AxiosResolve
  \/ AxiosReject
  \/ FunctionsResume
  \/ ErrorHandler
  \/ Limiter
  \/ FinalHandler
  \/ ListTools
  \/ CallTool
  \/ CallToolResume
  \/ Finish

Spec == Init /\ [][Next]_vars

\* A window of POST /functions requests from one client: LimiterMax of them
\* and one more.
WindowRequests ==
  {HttpRequest("POST", "/functions", TRUE, [t |-> "object", name |-> n], Undef) :
     n \in {"get_hot_items", "delete_game"}}

ReceiveInWindow ==
  /\ pc = "idle"
  /\ arrivals <= LimiterMax
  /\ \E r \in IF app = "part_000" THEN WindowRequests
              ELSE {HttpRequest("POST", "/functions", TRUE, Undef, Undef)} : Accept(r)

NextWindow ==
  \/ ReceiveInWindow
  \/ SkipLayer
  \/ Cors
  \/ JsonBodyParser
  \/ RequestLogger
  \/ FunctionsRoute
  \/ AxiosResolve
  \/ AxiosReject
  \/ FunctionsResume
  \/ ErrorHandler
  \/ Limiter
  \/ FinalHandler
  \/ Finish

SpecWindow == Init /\ [][NextWindow]_vars

\* ------------------------------------------------- vocabulary of the claims
Declared == {"search_game", "get_thing", "get_hot_items", "get_user_collection"}

IsPostFunctions == req.transport = "http" /\ req.method = "POST" /\ req.path = "/functions"

\* A POST /functions request that names a function, sent to the application
\* that has the route.
IsFunctionCall ==
  /\ app = "part_000"
  /\ IsPostFunctions
  /\ req.bodyOk
  /\ req.function_call.t = "object"

IsToolCall == req.transport = "mcp" /\ req.method = "tools/call"

IsCall == IsFunctionCall \/ IsToolCall

CallName == IF IsToolCall THEN req.name ELSE req.function_call.name

Done == pc = "done"

Response == responses[1]

UpstreamFailed == reply # NoReply /\ ~reply.ok

\* The arguments as the handler of the request parses them.
ParsedArguments ==
  IF req.transport = "http" THEN JSONparse(OrEmptyJson(req.arguments)) ELSE JSONparse(req.arguments)

HasObject == ~ParsedArguments.threw /\ ParsedArguments.v.t = "object"

Is4xx == IF req.transport = "http" THEN Response.status \in 400..499
         ELSE Response.k = "throw" /\ Response.error.code \in {"InvalidParams", "MethodNotFound"}

Is5xx == IF req.transport = "http" THEN Response.status \in 500..599
         ELSE Response.k = "throw" /\ Response.error.code = "InternalError"

\* What the handler of the current request does with the argument object o.
EffectFor(o) ==
  IF req.transport = "http" THEN FunctionsSwitch(CallName, o)
  ELSE CallToolSwitch(CallName, Text("json", o))

\* C1: a call whose name is not declared gets HTTP 400 / MethodNotFound, and
\* no upstream request is made for it.
C1_UnknownFunctionRejected ==
  (IsCall /\ CallName \notin Declared) =>
     /\ upstream = <<>>
     /\ Done => IF IsToolCall
                THEN Response.k = "throw" /\ Response.error.code = "MethodNotFound"
                ELSE Response.status = 400

RequiredField(name) ==
  CASE name = "search_game" -> "query"
    [] name = "get_thing" -> "id"
    [] name = "get_user_collection" -> "username"
    [] OTHER -> ""

MissingRequired ==
  /\ IsCall
  /\ RequiredField(CallName) # ""
  /\ HasObject
  /\ ParsedArguments.v[RequiredField(CallName)] = Undef

\* C2: a call without its required field gets a 4xx-equivalent response and
\* never reaches the upstream API.
C2_MissingRequiredRejected ==
  MissingRequired => (upstream = <<>> /\ (Done => Is4xx))

\* C3 as stated: when the upstream call of a valid request fails, the caller
\* gets a 5xx-equivalent error whose message is the upstream error's message.
C3_UpstreamFailureMessage ==
  (Done /\ UpstreamFailed) =>
     /\ Is5xx
     /\ IF req.transport = "http"
        THEN Response.body.k = "error" /\ Response.body.message = reply.error.message
        ELSE Response.error.message = reply.error.message

FailurePrefix(name) == IF name = "search_game" THEN "Search failed: " ELSE "Get thing failed: "

\* C3 amended: when the upstream call of a valid request fails, the caller
\* gets a 5xx-equivalent error (never a success envelope, never a 4xx) that
\* carries the upstream error's message: verbatim on POST /functions, after
\* the operation's prefix on the MCP tool call.
C3_UpstreamFailureMapped ==
  (Done /\ UpstreamFailed) =>
     /\ Len(upstream) = 1
     /\ Len(responses) = 1
     /\ Is5xx
     /\ IF req.transport = "http"
        THEN Response.body.k = "error" /\ Response.body.message = reply.error.message
        ELSE Response.error.message = FailurePrefix(CallName) \o reply.error.message

C3_Witness ==
  /\ Done /\ UpstreamFailed /\ IsToolCall
  /\ reply.error.status = 404
  /\ Response.error.message = "Search failed: Request failed with status code 404"

Endpoint(name) ==
  CASE name = "search_game" -> "/search"
    [] name = "get_thing" -> "/thing"
    [] name = "get_hot_items" -> "/hot"
    [] OTHER -> "/collection"

Advertised(a) == {toolsList(a)[i].name : i \in 1..Len(toolsList(a))}

\* C4: each declared name the tool list advertises is routed to its own
\* operation and endpoint, never to the unknown-function branch.
C4_DeclaredNamesRouted ==
  (IsCall /\ CallName \in Declared /\ CallName \in Advertised(app)) =>
     /\ upstream # <<>> => upstream[1].endpoint = Endpoint(CallName)
     /\ Done => IF IsToolCall
                THEN ~(Response.k = "throw" /\ Response.error.code = "MethodNotFound")
                ELSE Response # UnknownFunctionResponse

\* The documented defaults filled in.
WithDefaults(name, o) ==
  CASE name = "search_game" ->
         [o EXCEPT !.type = DefaultParam(o.type, Str(Boardgame)),
                   !.exact = DefaultParam(o.exact, Bool(FALSE))]
    [] name = "get_thing" -> [o EXCEPT !.stats = DefaultParam(o.stats, Bool(TRUE))]
    [] name = "get_hot_items" -> [o EXCEPT !.type = DefaultParam(o.type, Str(Boardgame))]
    [] OTHER -> o

\* C5: search_game with query q and exact=true sends exactly
\* query=<q>&exact=1, and an omitted optional argument sends the same query
\* as its documented default given explicitly.
C5_ExpectedQuery ==
  (IsCall /\ CallName \in Declared /\ HasObject /\ upstream # <<>>) =>
     LET o == ParsedArguments.v
     IN  /\ (CallName = "search_game" /\ o.exact = Bool(TRUE) /\ o.type = Undef) =>
              upstream[1].query =
                <<"q","u","e","r","y","=">> \o encodeURIComponent(o.query)
                  \o <<"&","e","x","a","c","t","=","1">>
         /\ EffectFor(WithDefaults(CallName, o)) = Call(upstream[1])

\* ---- reading a query string back
RECURSIVE SplitOn(_, _)
SplitOn(s, c) ==
  IF s = <<>> THEN << <<>> >>
  ELSE LET r == SplitOn(Tail(s), c)
       IN  IF Head(s) = c THEN << <<>> >> \o r
           ELSE << <<Head(s)>> \o Head(r) >> \o Tail(r)

DecodeTriple(a, b) ==
  CASE a = "2" /\ b = "6" -> "&"
    [] a = "3" /\ b = "D" -> "="
    [] a = "2" /\ b = "5" -> "%"
    [] a = "3" /\ b = "F" -> "?"
    [] OTHER -> " "

RECURSIVE PercentDecode(_)
PercentDecode(s) ==
  IF s = <<>> THEN <<>>
  ELSE IF Head(s) = "%" /\ Len(s) >= 3
       THEN <<DecodeTriple(s[2], s[3])>> \o PercentDecode(SubSeq(s, 4, Len(s)))
       ELSE <<Head(s)>> \o PercentDecode(Tail(s))

\* A segment key=value: the key, and the decoded value after the first "=".
ParamOf(seg) ==
  LET parts == SplitOn(seg, "=")
      key == Head(parts)
      raw == SubSeq(seg, Len(key) + 2, Len(seg))
  IN  [key |-> key, value |-> PercentDecode(raw)]

\* The parameters the upstream API reads from a query string.
ParseQuery(q) ==
  LET segs == SplitOn(q, "&")
  IN  [i \in 1..Len(segs) |-> ParamOf(segs[i])]

StringFields == {"query", "id", "type", "username"}

Marker(f) ==
  CASE f = "query" -> <<"Q">>
    [] f = "id" -> <<"I">>
    [] f = "type" -> <<"T">>
    [] OTHER -> <<"U">>

\* The argument object with every non-empty string replaced by a letter
\* that stands for it.
Marked(o) ==
  [f \in DOMAIN o |->
     IF f \in StringFields /\ o[f].t = "string" /\ o[f].s # <<>> THEN Str(Marker(f)) ELSE o[f]]

\* C6: every caller-supplied value is percent-encoded into the query string:
\* the upstream API reads the same parameters as for reserved-free values,
\* each holding the caller's value, whatever characters the value has.
C6_ArgumentsEncoded ==
  (IsCall /\ CallName \in Declared /\ HasObject /\ upstream # <<>>) =>
     LET o == ParsedArguments.v
         sent == ParseQuery(upstream[1].query)
         plain == ParseQuery(EffectFor(Marked(o)).url.query)
     IN  /\ Len(sent) = Len(plain)
         /\ \A i \in 1..Len(plain) :
              /\ sent[i].key = plain[i].key
              /\ \A f \in StringFields :
                   IF plain[i].value = Marker(f) /\ o[f].t = "string" /\ o[f].s # <<>>
                   THEN sent[i].value = o[f].s
                   ELSE plain[i].value \in {Marker(g) : g \in StringFields}
                          \/ sent[i].value = plain[i].value

DocumentedSchema ==
  << [name |-> "search_game", properties |-> {"query", "type", "exact"}, required |-> {"query"}],
     [name |-> "get_thing", properties |-> {"id", "type", "stats"}, required |-> {"id"}],
     [name |-> "get_hot_items", properties |-> {"type"}, required |-> {}],
     [name |-> "get_user_collection", properties |-> {"username"}, required |-> {"username"}] >>

\* An argument object with every required field present.
FilledObject ==
  [EmptyObject EXCEPT !.query = Str(<<"a">>), !.id = Str(<<"a">>), !.username = Str(<<"a">>)]

\* The arguments whose value changes what the application's operation for
\* `name` does.
AcceptedParameters(a, name) ==
  {f \in DOMAIN EmptyObject \ {"t"} :
     \E v \in OptStr \cup OptBool :
        IF a = "part_000"
        THEN FunctionsSwitch(name, [FilledObject EXCEPT ![f] = v]) # FunctionsSwitch(name, FilledObject)
        ELSE CallToolSwitch(name, Text("json", [FilledObject EXCEPT ![f] = v]))
               # CallToolSwitch(name, Text("json", FilledObject))}

\* C8: the manifest lists exactly the four descriptors with their documented
\* schemas, and each advertises the parameters its operation accepts.
C8_ManifestSchemas ==
  (Done /\ req.transport = "http" /\ Response.body.k = "manifest") =>
     /\ Response.body.functions = DocumentedSchema
     /\ \A i \in 1..Len(Response.body.functions) :
          Response.body.functions[i].properties
            = AcceptedParameters(app, Response.body.functions[i].name)

\* C9: once LimiterMax requests of the window were received, a further
\* POST /functions is rejected by the limiter and makes no upstream call.
C9_LimiterGuardsFunctions ==
  (IsPostFunctions /\ arrivals > LimiterMax) =>
     /\ upstream = <<>>
     /\ Done => Response = TooManyResponse

\* The guards of the handler steps: some step applies to the request.
StepAvailable ==
  \/ pc = "stack" /\ idx > Len(Stack(app))
  \/ pc = "stack" /\ idx \in 1..Len(Stack(app)) /\ ~Matches(Stack(app)[idx], req, err)
  \/ \E l \in {"cors", "express.json", "requestLogger", "GET /manifest.json", "GET /health",
                "GET /metrics", "POST /functions", "errorHandler", "limiter"} : At(l)
  \/ pc = "await" /\ pending # NoPending /\ FailuresOf(req) # {}
  \/ pc = "resume" /\ reply # NoReply /\ req.transport \in {"http", "mcp"}
  \/ pc = "mcp" /\ req.method \in {"tools/list", "tools/call"}

\* What is left of a request: the layers still ahead of it, and within a
\* layer the handler's own phases (running, awaiting upstream, resuming).
StepsLeft ==
  CASE pc \in {"stack", "mcp"} -> 4 * (Len(Stack(app)) + 2 - idx) + 3
    [] pc = "await" -> 4 * (Len(Stack(app)) + 2 - idx) + 2
    [] pc = "resume" -> 4 * (Len(Stack(app)) + 2 - idx) + 1
    [] OTHER -> 0

\* The responses of a request: at most one, one exactly when it is done, and
\* of the kinds the handlers produce.
OneResponse ==
  /\ Len(responses) <= 1
  /\ Done <=> Len(responses) = 1
  /\ pc \notin {"idle", "done"} => StepAvailable
  /\ (Done /\ app = "part_000" /\ IsPostFunctions) =>
        \/ reply # NoReply /\ reply.ok /\ Response = [status |-> 200, body |-> [k |-> "result", result |-> reply.data]]
        \/ /\ req.function_call.t = "object"
           /\ req.function_call.name \notin Declared
           /\ Response = UnknownFunctionResponse
        \/ /\ err # NoErr
           /\ Response.body.k = "error"
           /\ Response.body.message = err.message
           /\ Response.status = IF err.statusCode # 0 THEN err.statusCode ELSE 500
  /\ (Done /\ IsToolCall) =>
        \/ /\ reply # NoReply /\ reply.ok
           /\ Response = [k |-> "return", content |-> <<[type |-> "text", text |-> reply.data]>>]
        \/ /\ Response.k = "throw"
           /\ Response.error.name = "McpError"
           /\ CallName \notin {"search_game", "get_thing"} =>
                Response.error = McpError("MethodNotFound", "Unknown tool: " \o CallName)
           /\ (CallName \in {"search_game", "get_thing"} /\ ~HasObject) =>
                /\ Response.error.code = "InternalError"
                /\ Response.error.message
                     \in {"Operation failed: " \o JsonSyntaxError.message,
                          "Operation failed: " \o PropertyTypeError.message}
           /\ (HasObject /\ upstream = <<>> /\ CallName \in {"search_game", "get_thing"}) =>
                Response.error.code = "InvalidParams"
           /\ UpstreamFailed =>
                Response.error
                  = McpError("InternalError", FailurePrefix(CallName) \o reply.error.message)

\* C10: every POST /functions request (to the application that defines the
\* route) ends with exactly one response: the 200 envelope with the upstream
\* body, the 400 unknown-function error, or the error handler's response; the
\* tool call returns the upstream body as content or throws an McpError, an
\* McpError unchanged and any other exception as InternalError.  No request
\* is answered twice; none is left unanswered: a handler step is available
\* until the response, and every step brings the response nearer.
C10_ExactlyOneResponse ==
  /\ []OneResponse
  /\ [][pc \notin {"idle", "done"} => StepsLeft' < StepsLeft]_vars

C10_Witness ==
  /\ Done /\ IsFunctionCall
  /\ req.arguments = Text("{bad", Undef)
  /\ req.function_call.name = "get_thing"
  /\ responses = <<ErrorResponse(JsonSyntaxError)>>

====
